---- MODULE Spec2Model ----
(***************************************************************************)
(* Model of csvts, src/lib/parser.ts (listed in src/README.md from line    *)
(* 209): the row tokenizer CsvParser.parseRow and the record materializer  *)
(* CsvParser.processData.                                                  *)
(*                                                                         *)
(* A JavaScript string is modelled as a sequence of one-character strings, *)
(* so that indexing, slicing, splitting and trimming are computed the way  *)
(* the code computes them.                                                 *)
(***************************************************************************)
EXTENDS Integers, Sequences, FiniteSets, TLC

VARIABLES
    options,        \* this.options of the CsvParser
    row,            \* parseRow: the argument
    values,         \* parseRow: fields pushed so far
    currentValue,   \* parseRow: the current field buffer
    isQuoted,       \* parseRow: inside a quoted region
    i,              \* parseRow: scan position (0-based, as in the code)
    rowPc,          \* parseRow: "idle" | "scan" | "done"
    csvData,        \* processData: the argument
    lines,          \* processData: the lines still to process (header shifted off)
    headers,        \* processData: the header names
    result,         \* processData: data, errors and meta
    lineI,          \* processData: the loop index i of the row loop
    calls,          \* the calls made to the per-field parsers and the transform
    pc,             \* processData: "start" | "rows" | "done" | "thrown"
    value,          \* convertType: the argument
    converted,      \* convertType: the value returned
    typePc,         \* convertType: "idle" | "call" | "done"
    lenientDates    \* whether new Date of the engine accepts strings that are
                    \* not in the ISO format (left to the implementation)

vars == <<options, row, values, currentValue, isQuoted, i, rowPc,
          csvData, lines, headers, result, lineI, calls, pc,
          value, converted, typePc, lenientDates>>

rowVars == <<row, values, currentValue, isQuoted, i, rowPc>>
dataVars == <<csvData, lines, headers, result, lineI, calls, pc>>
typeVars == <<value, converted, typePc, lenientDates>>

----------------------------------------------------------------------------
(* Bounds *)

MaxRowLen == 5      \* longest row of the exhaustive tokenizer inputs
MaxContent == 3     \* longest content of a generated quoted field
MaxLines == 3       \* most lines of an input text

----------------------------------------------------------------------------
(* Characters and strings *)

Q == "\""           \* the double quote
BS == "\\"          \* the backslash
LF == "\n"
CR == "\r"
Undefined == "undefined"    \* JavaScript's undefined (row[-1], row[row.length], headers[k])

\* all strings over the alphabet A of length at most n
StringsUpTo(A, n) == UNION {[1..k -> A] : k \in 0..n}

----------------------------------------------------------------------------
(* CsvParser.constructor: the default options *)

DefaultOptions ==
    [delimiter |-> ",", newline |-> <<"a", "u", "t", "o">>,
     quoteChar |-> "\"", escapeChar |-> "\"",
     header |-> TRUE, skipEmptyLines |-> TRUE, transformHeader |-> "id",
     transform |-> "id", dynamicTyping |-> FALSE,
     comments |-> [t |-> "boolean", b |-> FALSE],
     skipInvalidLines |-> FALSE, preview |-> 0,
     parsers |-> [k \in {} |-> "object"],
     renameHeaders |-> [k \in {} |-> <<>>]]

----------------------------------------------------------------------------
(* CsvParser.parseRow *)

\* row[k] of JavaScript, k 0-based: undefined outside the string
CharAt(s, k) == IF k >= 0 /\ k < Len(s) THEN s[k + 1] ELSE Undefined

\* s.slice(0, -1)
SliceLast(s) == IF Len(s) = 0 THEN s ELSE SubSeq(s, 1, Len(s) - 1)

\* the state of the scan before the loop
ParseRowInit == [values |-> <<>>, currentValue |-> <<>>, isQuoted |-> FALSE, i |-> 0]

\* one iteration of the while loop, the trailing i++ included
ParseRowStep(st, r, o) ==
    LET char == r[st.i + 1] IN
    IF char = o.quoteChar
    THEN
        IF st.isQuoted /\ CharAt(r, st.i + 1) = o.delimiter
        THEN [st EXCEPT !.isQuoted = FALSE, !.i = st.i + 2]
        ELSE IF ~st.isQuoted /\ st.currentValue = <<>>
        THEN [st EXCEPT !.isQuoted = TRUE, !.i = st.i + 1]
        ELSE IF CharAt(r, st.i - 1) = o.escapeChar
        THEN [st EXCEPT !.currentValue = Append(SliceLast(st.currentValue), char),
                        !.i = st.i + 1]
        ELSE [st EXCEPT !.isQuoted = ~st.isQuoted, !.i = st.i + 1]
    ELSE IF char = o.delimiter /\ ~st.isQuoted
    THEN [st EXCEPT !.values = Append(st.values, st.currentValue),
                    !.currentValue = <<>>, !.i = st.i + 1]
    ELSE [st EXCEPT !.currentValue = Append(st.currentValue, char), !.i = st.i + 1]

\* a push that drops an empty last field
ParseRowFinishDropEmpty(st) ==
    IF st.currentValue = <<>> THEN st.values ELSE Append(st.values, st.currentValue)

\* the push after the loop
ParseRowFinish(st) == Append(st.values, st.currentValue)

RECURSIVE ParseRowFrom(_, _, _)
ParseRowFrom(st, r, o) ==
    IF st.i < Len(r) THEN ParseRowFrom(ParseRowStep(st, r, o), r, o)
    ELSE ParseRowFinish(st)

\* parseRow(row) as a function of the row and the options
ParseRow(r, o) == ParseRowFrom(ParseRowInit, r, o)

----------------------------------------------------------------------------
(* JavaScript values *)

Str(s) == [t |-> "string", s |-> s]
Num(n) == [t |-> "number", n |-> n]
Bool(b) == [t |-> "boolean", b |-> b]
Null == [t |-> "null"]
Undef == [t |-> "undefined"]
\* the object a per-field parser builds from a string (JSON.parse, new Date)
Obj(s) == [t |-> "object", of |-> s]

UndefinedKey == <<"u", "n", "d", "e", "f", "i", "n", "e", "d">>

\* the property key a field is converted to by parsedRow[field] and parsers[field]
ToKey(field) == IF field.t = "string" THEN field.s ELSE UndefinedKey

\* obj[key] = v on an object modelled as a function of its keys
SetKey(obj, key, v) ==
    [k \in (DOMAIN obj) \cup {key} |-> IF k = key THEN v ELSE obj[k]]

----------------------------------------------------------------------------
(* String helpers of the standard library, as processData uses them *)

\* the first position (1-based) at which sep occurs in s, 0 if there is none
IndexOf(s, sep) ==
    LET hits == {k \in 1..(Len(s) - Len(sep) + 1) : SubSeq(s, k, k + Len(sep) - 1) = sep}
    IN IF hits = {} THEN 0 ELSE CHOOSE k \in hits : \A h \in hits : k <= h

\* text.includes(sep)
Includes(s, sep) == IndexOf(s, sep) # 0

RECURSIVE SplitBy(_, _)
SplitBy(s, sep) ==
    LET k == IndexOf(s, sep) IN
    IF k = 0 THEN <<s>>
    ELSE <<SubSeq(s, 1, k - 1)>> \o SplitBy(SubSeq(s, k + Len(sep), Len(s)), sep)

\* s.split(sep): at least one piece, except that the empty separator splits
\* into the characters (none for the empty string)
Split(s, sep) ==
    IF sep = <<>> THEN [k \in 1..Len(s) |-> <<s[k]>>] ELSE SplitBy(s, sep)

WhiteSpace == {" ", "\t", LF, CR}

RECURSIVE TrimStart(_)
TrimStart(s) ==
    IF s # <<>> /\ Head(s) \in WhiteSpace THEN TrimStart(Tail(s)) ELSE s

RECURSIVE TrimEnd(_)
TrimEnd(s) ==
    IF s # <<>> /\ s[Len(s)] \in WhiteSpace THEN TrimEnd(SubSeq(s, 1, Len(s) - 1)) ELSE s

\* s.trim()
Trim(s) == TrimEnd(TrimStart(s))

\* s.startsWith(p)
StartsWith(s, p) == Len(p) <= Len(s) /\ SubSeq(s, 1, Len(p)) = p

----------------------------------------------------------------------------
(* CsvParser.detectNewline *)

Auto == <<"a", "u", "t", "o">>

\* a detection that looks for the line feed before the pair
DetectNewlineLfFirst(text) ==
    IF Includes(text, <<LF>>) THEN <<LF>>
    ELSE IF Includes(text, <<CR, LF>>) THEN <<CR, LF>>
    ELSE IF Includes(text, <<CR>>) THEN <<CR>>
    ELSE <<LF>>

DetectNewline(text) ==
    IF Includes(text, <<CR, LF>>) THEN <<CR, LF>>
    ELSE IF Includes(text, <<LF>>) THEN <<LF>>
    ELSE IF Includes(text, <<CR>>) THEN <<CR>>
    ELSE <<LF>>

----------------------------------------------------------------------------
(* The caller's functions: transformHeader, transform, parsers.  Each is   *)
(* one of a small set of behaviours, named by a string in the options.     *)

Returned(v) == [ok |-> TRUE, v |-> v]
\* throw new Error(message) when isError, throw of a value that is no Error otherwise
Thrown(isError, message) ==
    [ok |-> FALSE, error |-> [instanceOfError |-> isError, message |-> message]]

X == Str(<<"x">>)   \* the value the throwing functions reject

\* options.transform(value, field)
\*   "id"           (v) => v, the default
\*   "throwError"   throws new Error('bad value') on the value 'x'
\*   "throwString"  throws the string 'bad value' on the value 'x'
\*   "tag"          returns an object built from the value and the field
Transform(kind, v, field) ==
    CASE kind = "id" -> Returned(v)
      [] kind = "throwError" -> IF v = X THEN Thrown(TRUE, "bad value") ELSE Returned(v)
      [] kind = "throwString" -> IF v = X THEN Thrown(FALSE, "bad value") ELSE Returned(v)
      [] kind = "tag" -> Returned([t |-> "tagged", v |-> v, field |-> field])

\* options.parsers[key](value)
\*   "object"       builds an object from the string
\*   "throwError"   throws new Error('bad field') on the string 'x'
Parser(kind, v) ==
    CASE kind = "object" -> Returned(Obj(v))
      [] kind = "throwError" ->
            IF v = <<"x">> THEN Thrown(TRUE, "bad field") ELSE Returned(Str(v))

\* options.parsers, an object: a function from its keys to parser kinds
NoParsers == [k \in {} |-> "object"]

Upper(c) == CASE c = "a" -> "A" [] c = "b" -> "B" [] c = "c" -> "C"
              [] c = "d" -> "D" [] c = "x" -> "X" [] OTHER -> c

\* options.transformHeader(h)
\*   "id"     (h) => h, the default
\*   "upper"  (h) => h.toUpperCase()
TransformHeader(kind, h) ==
    CASE kind = "id" -> h
      [] kind = "upper" -> [k \in 1..Len(h) |-> Upper(h[k])]

\* options.renameHeaders, an object: a function from its keys to names
NoRenames == [k \in {} |-> <<>>]

\* this.options.renameHeaders[h] || h
Rename(renames, h) ==
    IF h \in DOMAIN renames /\ renames[h] # <<>> THEN renames[h] ELSE h

\* options.comments: false, true or a marker string
CommentsOff == [t |-> "boolean", b |-> FALSE]
CommentsOn == [t |-> "boolean", b |-> TRUE]
CommentsMarker(m) == [t |-> "string", s |-> m]

\* the truth value JavaScript gives options.comments
Truthy(v) == IF v.t = "boolean" THEN v.b ELSE v.s # <<>>

----------------------------------------------------------------------------
(* CsvParser.convertType *)

Digits == {"0", "1", "2", "3", "4", "5", "6", "7", "8", "9"}

DigitValue(c) ==
    CASE c = "0" -> 0 [] c = "1" -> 1 [] c = "2" -> 2 [] c = "3" -> 3 [] c = "4" -> 4
      [] c = "5" -> 5 [] c = "6" -> 6 [] c = "7" -> 7 [] c = "8" -> 8 [] c = "9" -> 9

AllDigits(s) == \A k \in 1..Len(s) : s[k] \in Digits

RECURSIVE DigitsValue(_)
\* the number a string of digits denotes
DigitsValue(s) ==
    IF s = <<>> THEN 0 ELSE 10 * DigitsValue(SubSeq(s, 1, Len(s) - 1)) + DigitValue(s[Len(s)])

RECURSIVE StripZeros(_)
\* a fraction without its trailing zeros
StripZeros(s) ==
    IF s # <<>> /\ s[Len(s)] = "0" THEN StripZeros(SubSeq(s, 1, Len(s) - 1)) ELSE s

NaN == [t |-> "number", nan |-> TRUE]
\* the number sign * digits / 10^scale
Decimal(sign, digits, scale) ==
    [t |-> "number", n |-> sign * digits, scale |-> scale]

\* an unsigned decimal literal: digits, digits.digits, digits. or .digits
UnsignedNumber(s) ==
    LET dot == IndexOf(s, <<".">>)
        whole == IF dot = 0 THEN s ELSE SubSeq(s, 1, dot - 1)
        frac == IF dot = 0 THEN <<>> ELSE StripZeros(SubSeq(s, dot + 1, Len(s)))
    IN IF AllDigits(whole) /\ AllDigits(frac)
          /\ (dot = 0 => whole # <<>>)
          /\ (dot # 0 => Len(s) > 1 /\ AllDigits(SubSeq(s, dot + 1, Len(s))))
       THEN [ok |-> TRUE, digits |-> DigitsValue(whole \o frac), scale |-> Len(frac)]
       ELSE [ok |-> FALSE, digits |-> 0, scale |-> 0]

\* Number(value) on strings of digits, sign, point and white space: white
\* space is trimmed, the empty string is 0, anything else that is no signed
\* decimal literal is NaN.  Exponents, hexadecimal literals and Infinity are
\* not in the alphabets of the inputs.
ToNumber(v) ==
    LET s == Trim(v)
        signed == s # <<>> /\ Head(s) \in {"-", "+"}
        body == IF signed THEN Tail(s) ELSE s
        u == UnsignedNumber(body)
    IN IF s = <<>> THEN Decimal(1, 0, 0)
       ELSE IF u.ok THEN Decimal(IF signed /\ Head(s) = "-" THEN -1 ELSE 1, u.digits, u.scale)
       ELSE NaN

\* the ISO date forms YYYY, YYYY-MM and YYYY-MM-DD, which every engine
\* parses; a day past the 28th is a date or not by month, year and engine,
\* and is left with the strings below
IsIsoDate(s) ==
    /\ Len(s) \in {4, 7, 10}
    /\ AllDigits(SubSeq(s, 1, 4))
    /\ Len(s) >= 7 =>
        /\ s[5] = "-"
        /\ AllDigits(SubSeq(s, 6, 7))
        /\ DigitsValue(SubSeq(s, 6, 7)) \in 1..12
    /\ Len(s) = 10 =>
        /\ s[8] = "-"
        /\ AllDigits(SubSeq(s, 9, 10))
        /\ DigitsValue(SubSeq(s, 9, 10)) \in 1..28

\* a string outside the ISO format that holds a digit: whether new Date
\* takes it for a date is left to the engine ('a 1' and '1-1' are dates in
\* some engines and invalid in others)
IsLegacyDate(s) == ~IsIsoDate(s) /\ \E k \in 1..Len(s) : s[k] \in Digits

\* !isNaN(new Date(value).getTime())
IsDate(s) == IsIsoDate(s) \/ (lenientDates /\ IsLegacyDate(s))

\* new Date(value)
DateOf(s) ==
    IF IsIsoDate(s)
    THEN [t |-> "date", year |-> DigitsValue(SubSeq(s, 1, 4)),
          month |-> IF Len(s) >= 7 THEN DigitsValue(SubSeq(s, 6, 7)) ELSE 1,
          day |-> IF Len(s) = 10 THEN DigitsValue(SubSeq(s, 9, 10)) ELSE 1]
    ELSE [t |-> "date", parsed |-> s]

ConvertType(v, o) ==
    IF ~o.dynamicTyping THEN Str(v)
    ELSE IF v = <<>> THEN Null
    ELSE IF v = <<"t", "r", "u", "e">> THEN Bool(TRUE)
    ELSE IF v = <<"f", "a", "l", "s", "e">> THEN Bool(FALSE)
    ELSE IF v = <<"n", "u", "l", "l">> THEN Null
    ELSE IF v = UndefinedKey THEN Undef
    ELSE IF ToNumber(v) # NaN THEN ToNumber(v)
    ELSE IF IsDate(v) THEN DateOf(v)
    ELSE Str(v)

----------------------------------------------------------------------------
(* CsvParser.processData: the conversion of one tokenized row (the body of *)
(* the try block)                                                          *)

\* the index counted from one
FieldOfOneBased(index, hdrs, o) ==
    IF o.header
    THEN IF index < Len(hdrs) THEN Str(hdrs[index + 1]) ELSE Undef
    ELSE Num(index + 1)

\* the field a value at the 0-based index belongs to: headers[index], which
\* is undefined past the header, or the index itself without headers
FieldOf(index, hdrs, o) ==
    IF o.header
    THEN IF index < Len(hdrs) THEN Str(hdrs[index + 1]) ELSE Undef
    ELSE Num(index)

\* this.options.header && this.options.parsers[field]
HasParser(field, o) == o.header /\ ToKey(field) \in DOMAIN o.parsers

\* a conversion in which dynamic typing, when on, wins over the parser
ConvertFieldTypingWins(v, field, o) ==
    IF HasParser(field, o) /\ ~o.dynamicTyping THEN Parser(o.parsers[ToKey(field)], v)
    ELSE Returned(ConvertType(v, o))

\* the per-field parser or convertType
ConvertField(v, field, o) ==
    IF HasParser(field, o) THEN Parser(o.parsers[ToKey(field)], v)
    ELSE Returned(ConvertType(v, o))

\* the calls one field makes to the caller's functions, in order
FieldCalls(v, field, o) ==
    LET c == ConvertField(v, field, o) IN
    (IF HasParser(field, o)
     THEN << [fn |-> "parser", arg |-> Str(v), field |-> field] >> ELSE <<>>)
    \o (IF c.ok THEN << [fn |-> "transform", arg |-> c.v, field |-> field] >> ELSE <<>>)

\* parsedRow[field] = parsedValue, or parsedRow.push(parsedValue)
Store(parsedRow, field, v, o) ==
    IF o.header THEN SetKey(parsedRow, ToKey(field), v) ELSE Append(parsedRow, v)

RECURSIVE ConvertFrom(_, _, _, _, _, _)
\* row.forEach from the given index on; stops at the first throw
ConvertFrom(r, index, parsedRow, made, hdrs, o) ==
    IF index >= Len(r) THEN [ok |-> TRUE, parsedRow |-> parsedRow, calls |-> made]
    ELSE
        LET v == r[index + 1]
            field == FieldOf(index, hdrs, o)
            c == ConvertField(v, field, o)
            tr == Transform(o.transform, c.v, field)
            now == made \o FieldCalls(v, field, o)
        IN IF ~c.ok THEN [ok |-> FALSE, error |-> c.error, calls |-> now]
           ELSE IF ~tr.ok THEN [ok |-> FALSE, error |-> tr.error, calls |-> now]
           ELSE ConvertFrom(r, index + 1, Store(parsedRow, field, tr.v, o), now, hdrs, o)

\* the try block on one trimmed line: parseRow, then the conversion of
\* every field into a fresh parsedRow ({} with headers, [] without; both
\* are the empty function)
ConvertLine(line, hdrs, o) == ConvertFrom(ParseRow(line, o), 0, <<>>, <<>>, hdrs, o)

----------------------------------------------------------------------------
(* Inputs of the tokenizer *)

RowAlphabet == {"a", ",", Q, BS}

\* contents of quoted fields
Contents == StringsUpTo({"a", ",", Q}, MaxContent)
ContentsNoQuote == StringsUpTo({"a", ","}, MaxContent)

RECURSIVE DoubleQuotes(_)
\* the content with every quote written twice
DoubleQuotes(c) ==
    IF c = <<>> THEN <<>>
    ELSE (IF Head(c) = Q THEN <<Q, Q>> ELSE <<Head(c)>>) \o DoubleQuotes(Tail(c))

\* a field written in quotes, its literal quotes doubled
QuoteField(c) == <<Q>> \o DoubleQuotes(c) \o <<Q>>

\* a quoted field as the last field of the line
QuotedLastRow(c) == <<"a", ",">> \o QuoteField(c)
\* a quoted field followed by a delimiter and two more fields
QuotedMiddleRow(c) == <<"a", ",">> \o QuoteField(c) \o <<",", "b", ",", "b">>

John == <<"J", "o", "h", "n">>
EscapedQuoteRow == <<"J", "o", "h", "n", ",", Q, "H", "e", " ", "s", "a", "i", "d", " ", Q, Q, "H", "e", "l", "l", "o", Q, Q, " ", "t", "o", " ", "m", "e", Q>>
EscapedQuoteField == <<"H", "e", " ", "s", "a", "i", "d", " ", Q, "H", "e", "l", "l", "o", Q, " ", "t", "o", " ", "m", "e">>
QuotedFieldRow == <<"J", "o", "h", "n", ",", Q, "S", "o", "f", "t", "w", "a", "r", "e", " ", "E", "n", "g", "i", "n", "e", "e", "r", ",", " ", "S", "e", "n", "i", "o", "r", Q>>
QuotedField == <<"S", "o", "f", "t", "w", "a", "r", "e", " ", "E", "n", "g", "i", "n", "e", "e", "r", ",", " ", "S", "e", "n", "i", "o", "r">>
ProductRow == <<"P", "0", "0", "2", ",", Q, "C", "o", "f", "f", "e", "e", " ", "M", "a", "k", "e", "r", ",", " ", "D", "e", "l", "u", "x", "e", Q, ",", "8", "9", ".", "9", "9", ",", "t", "r", "u", "e">>
ProductFields == << <<"P", "0", "0", "2">>, <<"C", "o", "f", "f", "e", "e", " ", "M", "a", "k", "e", "r", ",", " ", "D", "e", "l", "u", "x", "e">>, <<"8", "9", ".", "9", "9">>, <<"t", "r", "u", "e">> >>
EmptyFieldsRow == <<"J", "o", "h", "n", ",", ",", "N", "e", "w", " ", "Y", "o", "r", "k">>

ExampleRows == {EscapedQuoteRow, QuotedFieldRow, ProductRow, EmptyFieldsRow}

RowInputs ==
    StringsUpTo(RowAlphabet, MaxRowLen) \cup ExampleRows
        \cup {QuotedLastRow(c) : c \in Contents}
        \cup {QuotedMiddleRow(c) : c \in Contents}

\* the control characters the tokenizer runs under: the defaults, and a
\* backslash as the escape character
RowOptions == {[DefaultOptions EXCEPT !.escapeChar = e] : e \in {Q, BS}}

----------------------------------------------------------------------------
(* The tokenizer, one loop iteration at a time *)

IdleResult ==
    [data |-> <<>>, errors |-> <<>>,
     meta |-> [delimiter |-> ",", linebreak |-> <<LF>>, truncated |-> FALSE,
               fields |-> Undef, rows |-> 0]]

TypeIdle ==
    /\ value = <<>>
    /\ converted = Undef
    /\ typePc = "idle"
    /\ lenientDates = FALSE

DataIdle ==
    /\ csvData = <<>>
    /\ lines = <<>>
    /\ headers = <<>>
    /\ result = IdleResult
    /\ lineI = 0
    /\ calls = <<>>
    /\ pc = "idle"

InitRow ==
    /\ options \in RowOptions
    /\ row \in RowInputs
    /\ values = ParseRowInit.values
    /\ currentValue = ParseRowInit.currentValue
    /\ isQuoted = ParseRowInit.isQuoted
    /\ i = ParseRowInit.i
    /\ rowPc = "scan"
    /\ DataIdle
    /\ TypeIdle

\* the scan state as the record ParseRowStep works on
RowState == [values |-> values, currentValue |-> currentValue,
             isQuoted |-> isQuoted, i |-> i]

\* one iteration of the while loop of parseRow
ParseRowLoop ==
    /\ rowPc = "scan"
    /\ i < Len(row)
    /\ LET st == ParseRowStep(RowState, row, options) IN
        /\ values' = st.values
        /\ currentValue' = st.currentValue
        /\ isQuoted' = st.isQuoted
        /\ i' = st.i
    /\ UNCHANGED <<options, row, rowPc, dataVars, typeVars>>

\* the end of the loop: push the last field and return
ParseRowReturn ==
    /\ rowPc = "scan"
    /\ i >= Len(row)
    /\ values' = ParseRowFinish(RowState)
    /\ rowPc' = "done"
    /\ UNCHANGED <<options, row, currentValue, isQuoted, i, dataVars, typeVars>>

NextRow == ParseRowLoop \/ ParseRowReturn

SpecRow == InitRow /\ [][NextRow]_vars

----------------------------------------------------------------------------
(* Inputs of processData *)

\* the lines the input texts are made of: a two-field line, a three-field
\* line whose second value the throwing functions reject, the empty line
\* and a comment line
LinePool ==
    { <<"a", ",", "b">>, <<"a", ",", "x", ",", "c">>, <<>>, <<"#", "c">> }

RECURSIVE JoinLines(_)
\* the lines joined by line feeds
JoinLines(ls) ==
    IF ls = <<>> THEN <<>>
    ELSE IF Len(ls) = 1 THEN ls[1]
    ELSE ls[1] \o <<LF>> \o JoinLines(Tail(ls))

Texts == {JoinLines(ls) : ls \in StringsUpTo(LinePool, MaxLines)}

PreviewCaps == {0, 1, 2}

DataOptions ==
    {[DefaultOptions EXCEPT !.header = h, !.skipEmptyLines = se, !.comments = cm,
                            !.skipInvalidLines = si, !.preview = pv,
                            !.transform = tr, !.parsers = ps] :
        h \in BOOLEAN, se \in BOOLEAN, cm \in {CommentsOff, CommentsMarker(<<"#">>)},
        si \in BOOLEAN, pv \in PreviewCaps,
        tr \in {"id", "throwError", "throwString"},
        ps \in {NoParsers, [k \in {<<"b">>} |-> "throwError"]}}

----------------------------------------------------------------------------
(* CsvParser.processData, one loop iteration at a time *)

RowIdle ==
    /\ row = <<>>
    /\ values = <<>>
    /\ currentValue = <<>>
    /\ isQuoted = FALSE
    /\ i = 0
    /\ rowPc = "idle"

Init ==
    /\ options \in DataOptions
    /\ csvData \in Texts
    /\ lines = <<>>
    /\ headers = <<>>
    /\ result = IdleResult
    /\ lineI = 0
    /\ calls = <<>>
    /\ pc = "start"
    /\ RowIdle
    /\ TypeIdle

\* meta.linebreak
Linebreak(text, o) == IF o.newline = Auto THEN DetectNewline(text) ELSE o.newline

\* the header names: parseRow, transformHeader, then renameHeaders
HeaderOf(line, o) ==
    LET raw == ParseRow(line, o) IN
    [k \in 1..Len(raw) |-> Rename(o.renameHeaders, TransformHeader(o.transformHeader, raw[k]))]

NoDataError == [type |-> "NoData", code |-> "empty_file", message |-> "No data found in CSV"]

\* the ParseError with the row number one too small
InvalidRowErrorZeroBased(error, n) ==
    [type |-> "InvalidRow", code |-> "row_parse_failed",
     message |-> IF error.instanceOfError THEN error.message ELSE "Failed to parse row",
     row |-> n - 1]

InvalidRowError(error, n) ==
    [type |-> "InvalidRow", code |-> "row_parse_failed",
     message |-> IF error.instanceOfError THEN error.message ELSE "Failed to parse row",
     row |-> n]

\* processData up to the row loop: the result object, the split into
\* lines and the header
ProcessDataStart ==
    /\ pc = "start"
    /\ LET linebreak == Linebreak(csvData, options)
           all == Split(csvData, linebreak)
           meta == [delimiter |-> options.delimiter, linebreak |-> linebreak,
                    truncated |-> FALSE, fields |-> Undef, rows |-> 0]
       IN IF options.header
          THEN IF Len(all) = 0
               THEN /\ result' = [data |-> <<>>, errors |-> <<NoDataError>>, meta |-> meta]
                    /\ headers' = <<>>
                    /\ lines' = all
                    /\ pc' = "done"
               ELSE /\ headers' = HeaderOf(all[1], options)
                    /\ result' = [data |-> <<>>, errors |-> <<>>,
                                  meta |-> [meta EXCEPT !.fields =
                                      [t |-> "array", a |-> HeaderOf(all[1], options)]]]
                    /\ lines' = Tail(all)
                    /\ pc' = "rows"
          ELSE /\ headers' = <<>>
               /\ result' = [data |-> <<>>, errors |-> <<>>, meta |-> meta]
               /\ lines' = all
               /\ pc' = "rows"
    /\ lineI' = 0
    /\ UNCHANGED <<options, csvData, calls, rowVars, typeVars>>

InLoop == pc = "rows" /\ lineI < Len(lines)

\* a cap compared with > instead of >=
CutoffStrict == options.preview # 0 /\ Len(result.data) > options.preview

\* this.options.preview && result.data.length >= this.options.preview
Cutoff == options.preview # 0 /\ Len(result.data) >= options.preview

\* the line as it is in the input, not trimmed
CurrentLineRaw == lines[lineI + 1]

\* lines[i].trim()
CurrentLine == Trim(lines[lineI + 1])

CommentChar == IF options.comments.t = "string" THEN options.comments.s ELSE <<"#">>

IsEmptyLine == options.skipEmptyLines /\ CurrentLine = <<>>
IsComment == Truthy(options.comments) /\ StartsWith(CurrentLine, CommentChar)

\* the line reaches the try block
IsRow == InLoop /\ ~Cutoff /\ ~IsEmptyLine /\ ~IsComment

\* the calls of a row, with the loop index of the line that made them
CallsAt(made, n) ==
    [k \in 1..Len(made) |->
        [fn |-> made[k].fn, arg |-> made[k].arg, field |-> made[k].field, line |-> n]]

\* result.meta.rows = result.data.length; return result
Finished(res) == [res EXCEPT !.meta.rows = Len(res.data)]

\* the preview cap is reached: truncated, break, return
PreviewCutoff ==
    /\ InLoop
    /\ Cutoff
    /\ result' = Finished([result EXCEPT !.meta.truncated = TRUE])
    /\ pc' = "done"
    /\ UNCHANGED <<options, csvData, lines, headers, lineI, calls, rowVars, typeVars>>

\* skipEmptyLines: continue
SkipEmptyLine ==
    /\ InLoop
    /\ ~Cutoff
    /\ IsEmptyLine
    /\ lineI' = lineI + 1
    /\ UNCHANGED <<options, csvData, lines, headers, result, calls, pc, rowVars, typeVars>>

\* comments: continue
SkipComment ==
    /\ InLoop
    /\ ~Cutoff
    /\ ~IsEmptyLine
    /\ IsComment
    /\ lineI' = lineI + 1
    /\ UNCHANGED <<options, csvData, lines, headers, result, calls, pc, rowVars, typeVars>>

\* a row loop that puts the new Record in front of the earlier ones
RowConvertedUnshift ==
    /\ IsRow
    /\ LET c == ConvertLine(CurrentLine, headers, options) IN
        /\ c.ok
        /\ result' = [result EXCEPT !.data = <<c.parsedRow>> \o result.data]
        /\ calls' = calls \o CallsAt(c.calls, lineI)
    /\ lineI' = lineI + 1
    /\ UNCHANGED <<options, csvData, lines, headers, pc, rowVars, typeVars>>

\* the try block runs to its end: result.data.push(parsedRow)
RowConverted ==
    /\ IsRow
    /\ LET c == ConvertLine(CurrentLine, headers, options) IN
        /\ c.ok
        /\ result' = [result EXCEPT !.data = Append(result.data, c.parsedRow)]
        /\ calls' = calls \o CallsAt(c.calls, lineI)
    /\ lineI' = lineI + 1
    /\ UNCHANGED <<options, csvData, lines, headers, pc, rowVars, typeVars>>

\* the try block throws under skipInvalidLines: result.errors.push
RowSkipped ==
    /\ IsRow
    /\ options.skipInvalidLines
    /\ LET c == ConvertLine(CurrentLine, headers, options) IN
        /\ ~c.ok
        /\ result' = [result EXCEPT
                        !.errors = Append(result.errors, InvalidRowError(c.error, lineI + 1))]
        /\ calls' = calls \o CallsAt(c.calls, lineI)
    /\ lineI' = lineI + 1
    /\ UNCHANGED <<options, csvData, lines, headers, pc, rowVars, typeVars>>

\* a throw that records the ParseError before it rethrows
RowThrownRecorded ==
    /\ IsRow
    /\ ~options.skipInvalidLines
    /\ LET c == ConvertLine(CurrentLine, headers, options) IN
        /\ ~c.ok
        /\ calls' = calls \o CallsAt(c.calls, lineI)
        /\ result' = [result EXCEPT
                        !.errors = Append(result.errors,
                            [type |-> "InvalidRow", code |-> "row_parse_failed",
                             message |-> c.error.message, row |-> lineI + 1])]
    /\ pc' = "thrown"
    /\ UNCHANGED <<options, csvData, lines, headers, lineI, rowVars, typeVars>>

\* the try block throws without skipInvalidLines: throw error
RowThrown ==
    /\ IsRow
    /\ ~options.skipInvalidLines
    /\ LET c == ConvertLine(CurrentLine, headers, options) IN
        /\ ~c.ok
        /\ calls' = calls \o CallsAt(c.calls, lineI)
    /\ pc' = "thrown"
    /\ UNCHANGED <<options, csvData, lines, headers, result, lineI, rowVars, typeVars>>

\* the loop ends: meta.rows, return result
ProcessDataReturn ==
    /\ pc = "rows"
    /\ lineI >= Len(lines)
    /\ result' = Finished(result)
    /\ pc' = "done"
    /\ UNCHANGED <<options, csvData, lines, headers, lineI, calls, rowVars, typeVars>>

Next ==
    \/ ProcessDataStart
    \/ PreviewCutoff
    \/ SkipEmptyLine
    \/ SkipComment
    \/ RowConverted
    \/ RowSkipped
    \/ RowThrown
    \/ ProcessDataReturn

Spec == Init /\ [][Next]_vars

----------------------------------------------------------------------------
(* processData on texts with every mix of line breaks *)

\* option records under which every branch of the row loop is taken: the
\* defaults, a preview cap without a header, comments with a transform that
\* throws and is skipped, and a transform that throws and ends the parse
Profiles ==
    { DefaultOptions,
      [DefaultOptions EXCEPT !.header = FALSE, !.preview = 1],
      [DefaultOptions EXCEPT !.comments = CommentsOn, !.transform = "throwError",
                             !.skipInvalidLines = TRUE],
      [DefaultOptions EXCEPT !.transform = "throwString"] }

MaxText == 4

\* options.newline: 'auto' or an explicit separator
Newlines == {Auto, <<LF>>, <<CR>>, <<CR, LF>>}

NewlineOptions == {[p EXCEPT !.newline = n] : p \in Profiles, n \in Newlines}

\* every text of field characters, carriage returns and line feeds
NewlineTexts == StringsUpTo({"a", "x", "#", CR, LF}, MaxText)

InitNewline ==
    /\ options \in NewlineOptions
    /\ csvData \in NewlineTexts
    /\ lines = <<>>
    /\ headers = <<>>
    /\ result = IdleResult
    /\ lineI = 0
    /\ calls = <<>>
    /\ pc = "start"
    /\ RowIdle
    /\ TypeIdle

SpecNewline == InitNewline /\ [][Next]_vars

----------------------------------------------------------------------------
(* processData on texts with blank lines and comment lines *)

\* a one-field line, a line the throwing transform rejects (and a comment
\* under the marker x), the empty line, a line of white space, and a
\* comment line that starts with white space
FilterLinePool == { <<"a">>, <<"x">>, <<>>, <<" ">>, <<" ", "#", "c">> }

FilterTexts == {JoinLines(ls) : ls \in StringsUpTo(FilterLinePool, MaxLines)}

FilterOptions ==
    {[DefaultOptions EXCEPT !.header = h, !.skipEmptyLines = se, !.comments = cm,
                            !.skipInvalidLines = si, !.preview = pv, !.transform = tr] :
        h \in BOOLEAN, se \in BOOLEAN,
        cm \in {CommentsOff, CommentsOn, CommentsMarker(<<"x">>)},
        si \in BOOLEAN, pv \in {0, 1}, tr \in {"id", "throwError"}}

InitFilter ==
    /\ options \in FilterOptions
    /\ csvData \in FilterTexts
    /\ lines = <<>>
    /\ headers = <<>>
    /\ result = IdleResult
    /\ lineI = 0
    /\ calls = <<>>
    /\ pc = "start"
    /\ RowIdle
    /\ TypeIdle

SpecFilter == InitFilter /\ [][Next]_vars

----------------------------------------------------------------------------
(* processData with header functions, per-field parsers, dynamic typing    *)
(* and a transform                                                         *)

MaxDataLines == 2

\* the first line of every text: the header a,b (a data row without headers)
HeaderLine == <<"a", ",", "b">>

\* a row of two numerals, a row with an empty field, a row the throwing
\* transforms reject, a comment line and the empty line
FieldLinePool ==
    { <<"1", ",", "1">>, <<",", "a">>, <<"x", ",", "1">>, <<"#">>, <<>> }

FieldTexts ==
    {JoinLines(<<HeaderLine>> \o ls) : ls \in StringsUpTo(FieldLinePool, MaxDataLines)}

\* renameHeaders: none, a renamed, A renamed, a renamed to the empty string
RenameMaps ==
    { NoRenames,
      [k \in {<<"a">>} |-> <<"c">>],
      [k \in {<<"A">>} |-> <<"c">>],
      [k \in {<<"a">>} |-> <<>>] }

\* parsers: none, or one registered under the name b
ParserMaps == {NoParsers, [k \in {<<"b">>} |-> "object"]}

FieldOptions ==
    {[DefaultOptions EXCEPT !.header = h, !.transformHeader = th, !.renameHeaders = rn,
                            !.parsers = ps, !.dynamicTyping = dt, !.transform = tr] :
        h \in BOOLEAN, th \in {"id", "upper"}, rn \in RenameMaps, ps \in ParserMaps,
        dt \in BOOLEAN, tr \in {"id", "tag"}}
    \cup Profiles

InitFields ==
    /\ options \in FieldOptions
    /\ csvData \in FieldTexts
    /\ lines = <<>>
    /\ headers = <<>>
    /\ result = IdleResult
    /\ lineI = 0
    /\ calls = <<>>
    /\ pc = "start"
    /\ RowIdle
    /\ TypeIdle

SpecFields == InitFields /\ [][Next]_vars

----------------------------------------------------------------------------
(* CsvParser.convertType on its own *)

MaxTypeLen == 3

\* the strings of the conversion tests and of the fixtures
True == <<"t", "r", "u", "e">>
False == <<"f", "a", "l", "s", "e">>
NullWord == <<"n", "u", "l", "l">>
Thirty == <<"3", "0">>
Salary == <<"5", "0", "0", "0", "0", ".", "5", "0">>
BirthDate == <<"1", "9", "9", "0", "-", "0", "1", "-", "1", "5">>
YearOnly == <<"2", "0", "2", "4">>
YearMonth == <<"2", "0", "2", "4", "-", "0", "1">>
LastOfMonth == <<"2", "0", "2", "4", "-", "0", "2", "-", "3", "0">>

\* every short string of digits, sign, point, letter and space, and the
\* strings above
TypeInputs ==
    StringsUpTo({"1", "0", ".", "-", "a", " "}, MaxTypeLen)
    \cup {True, False, NullWord, UndefinedKey, John, Thirty, Salary,
          BirthDate, YearOnly, YearMonth, LastOfMonth}

InitType ==
    /\ options \in {[DefaultOptions EXCEPT !.dynamicTyping = dt] : dt \in BOOLEAN}
    /\ value \in TypeInputs
    /\ converted = Undef
    /\ typePc = "call"
    /\ lenientDates \in BOOLEAN
    /\ RowIdle
    /\ DataIdle

\* convertType(value, dynamicTyping)
ConvertTypeCall ==
    /\ typePc = "call"
    /\ converted' = ConvertType(value, options)
    /\ typePc' = "done"
    /\ UNCHANGED <<options, value, lenientDates, rowVars, dataVars>>

NextType == ConvertTypeCall

SpecType == InitType /\ [][NextType]_vars

----------------------------------------------------------------------------
(* Properties of the tokenizer *)

\* the positions of the character d in r
Positions(r, d) == {k \in 1..Len(r) : r[k] = d}

\* the position of the k-th d in r; 0 for k = 0, Len(r) + 1 past the last one
KthPosition(r, d, k) ==
    IF k = 0 THEN 0
    ELSE IF k > Cardinality(Positions(r, d)) THEN Len(r) + 1
    ELSE CHOOSE p \in Positions(r, d) :
            Cardinality({q \in Positions(r, d) : q < p}) = k - 1

\* the literal text between consecutive occurrences of d, in order
FieldsBetween(r, d) ==
    [j \in 1..(Cardinality(Positions(r, d)) + 1) |->
        SubSeq(r, KthPosition(r, d, j - 1) + 1, KthPosition(r, d, j) - 1)]

HasQuote(r) == \E k \in 1..Len(r) : r[k] = options.quoteChar

\* C1: with the default options a quoted field whose literal quotes are
\* doubled tokenizes to its content, each doubled quote giving one quote:
\* John,"He said ""Hello"" to me" gives John and He said "Hello" to me.
C1_DoubledQuoteContent ==
    (rowPc = "done" /\ options = DefaultOptions) =>
        /\ row = EscapedQuoteRow => values = <<John, EscapedQuoteField>>
        /\ \A c \in Contents :
            (Positions(c, Q) # {} /\ row = QuotedLastRow(c)) => values = << <<"a">>, c >>

\* C2: a quoted field followed by a delimiter and further fields is a field
\* of its own, and the text after the delimiter gives separate fields:
\* P002,"Coffee Maker, Deluxe",89.99,true gives four fields.
C2_QuotedFieldThenDelimiter ==
    (rowPc = "done" /\ options = DefaultOptions) =>
        /\ row = ProductRow => values = ProductFields
        /\ \A c \in ContentsNoQuote :
            (c # <<>> /\ row = QuotedMiddleRow(c))
                => values = << <<"a">>, c, <<"b">>, <<"b">> >>

\* C3: for every content without a quote character, a line whose last field
\* is quote + content + quote gives that content as its last field; the
\* delimiters inside the quotes do not split it.
C3_QuotedLastField ==
    (rowPc = "done" /\ options = DefaultOptions) =>
        /\ row = QuotedFieldRow => values = <<John, QuotedField>>
        /\ \A c \in ContentsNoQuote :
            row = <<"a", ",", Q>> \o c \o <<Q>> => values = << <<"a">>, c >>

\* C4: a line without a quote character and with N delimiters gives exactly
\* N + 1 fields, in order, each the literal text between consecutive
\* delimiters; the empty line gives one empty field.
C4_UnquotedFields ==
    (rowPc = "done" /\ ~HasQuote(row)) =>
        /\ Len(values) = Cardinality(Positions(row, options.delimiter)) + 1
        /\ values = FieldsBetween(row, options.delimiter)
        /\ row = <<>> => values = << <<>> >>

\* C4's case: an unquoted line with two delimiters or more and an empty field
C4_Witness ==
    /\ rowPc = "done"
    /\ ~HasQuote(row)
    /\ Cardinality(Positions(row, options.delimiter)) >= 2
    /\ \E k \in 1..Len(values) : values[k] = <<>>
    /\ \E k \in 1..Len(values) : values[k] # <<>>

\* the character about to be scanned is a quote that takes the third branch
\* of parseRow: neither a closing quote before a delimiter nor an opening
\* quote of an empty field, and the input character before it is escapeChar
QuoteTakenAsEscaped ==
    /\ rowPc = "scan"
    /\ i < Len(row)
    /\ row[i + 1] = options.quoteChar
    /\ ~(isQuoted /\ CharAt(row, i + 1) = options.delimiter)
    /\ ~(~isQuoted /\ currentValue = <<>>)
    /\ CharAt(row, i - 1) = options.escapeChar

\* C17: whenever the tokenizer treats a quote as escaped, the last
\* character of the field buffer is the escape character, so that the
\* replacement removes the escape character and never a data character.
\* (Stated for a buffer that holds a character, the one the replacement
\* removes.)
C17_EscapeIsLastInBuffer ==
    (QuoteTakenAsEscaped /\ currentValue # <<>>) =>
        currentValue[Len(currentValue)] = options.escapeChar

----------------------------------------------------------------------------
(* Properties of processData *)

\* the lines of the input text, the header line included
AllLines == Split(csvData, Linebreak(csvData, options))

\* the lines after the header line
DataLines == IF options.header THEN Tail(AllLines) ELSE AllLines

\* a line that the filters of the row loop drop
Filtered(line) ==
    \/ options.skipEmptyLines /\ Trim(line) = <<>>
    \/ Truthy(options.comments) /\ StartsWith(Trim(line), CommentChar)

\* a line whose conversion raises: a per-field parser or the transform throws
Raises(line) == ~ConvertLine(Trim(line), headers, options).ok

\* a line that yields a Record when the loop reaches it
Yields(line) == ~Filtered(line) /\ ~Raises(line)

\* C5: the empty text parsed with headers enabled gives no Record and
\* exactly one ParseError, of code empty_file.
C5_EmptyTextIsEmptyFile ==
    (pc = "done" /\ csvData = <<>> /\ options = DefaultOptions /\ options.header) =>
        /\ result.data = <<>>
        /\ Len(result.errors) = 1
        /\ result.errors[1].code = "empty_file"

\* a data row with more fields than the header is about to be converted
\* (a header of two names or more, as in name,age)
ExtraFieldsRow ==
    /\ IsRow
    /\ options.header
    /\ Len(headers) >= 2
    /\ Len(ParseRow(CurrentLine, options)) > Len(headers)

\* C6: with headers, a data row with more fields than the header never
\* becomes a Record: under skipInvalidLines it adds one ParseError of code
\* row_parse_failed, otherwise the parse throws.
C6_ExtraFieldsRowFails ==
    [][ExtraFieldsRow =>
        IF options.skipInvalidLines
        THEN /\ result'.data = result.data
             /\ Len(result'.errors) = Len(result.errors) + 1
             /\ result'.errors[Len(result'.errors)].code = "row_parse_failed"
        ELSE pc' = "thrown"]_vars

C8_RaisingRowEndsParse ==
    [][/\ (IsRow /\ ~options.skipInvalidLines /\ Raises(CurrentLine)) =>
            /\ pc' = "thrown"
            /\ result' = result
            /\ lineI' = lineI
       /\ pc' = "thrown" => \A k \in 1..Len(calls') : calls'[k].line <= lineI'
       /\ pc = "thrown" => UNCHANGED vars]_vars

\* C8's case: the parse has thrown after a Record, with a line left
C8_Witness ==
    /\ pc = "thrown"
    /\ Len(result.data) >= 1
    /\ result.errors = <<>>
    /\ lineI + 1 < Len(lines)

\* the number of lines after the header that yield a Record
YieldCount == Cardinality({k \in 1..Len(lines) : Yields(lines[k])})

\* C9: with a preview cap p > 0 there are never more than p Records; when
\* more than p lines would yield Records the result has exactly p Records,
\* truncated is set, and the loop stopped right after the p-th such line;
\* with no cap every line is processed and truncated is not set.
C9_PreviewCap ==
    LET p == options.preview IN
    /\ p > 0 => Len(result.data) <= p
    /\ (pc = "done" /\ p > 0 /\ YieldCount > p) =>
            /\ Len(result.data) = p
            /\ result.meta.truncated
            /\ result.meta.rows = p
            /\ lineI < Len(lines)
            /\ Yields(lines[lineI])
            /\ Cardinality({k \in 1..lineI : Yields(lines[k])}) = p
            /\ \A k \in 1..Len(calls) : calls[k].line < lineI
    /\ (pc = "done" /\ p = 0) =>
            /\ ~result.meta.truncated
            /\ lineI = Len(lines)

\* C9's case: three lines yield Records under a cap of two
C9_Witness ==
    /\ pc = "done"
    /\ options.preview = 2
    /\ YieldCount > 2
    /\ Len(result.data) = 2
    /\ result.meta.truncated

\* the lines that are no comment lines
NonComments == {k \in 1..Len(AllLines) : ~StartsWith(Trim(AllLines[k]), CommentChar)}

\* the first line that is no comment line; 0 if every line is one
FirstNonComment ==
    IF NonComments = {} THEN 0
    ELSE CHOOSE k \in NonComments : \A n \in NonComments : k <= n

\* C10: with comments and headers enabled, a comment line before the header
\* line is skipped: the header is taken from the first line that is no
\* comment, and neither that line nor the comment gives a Record.
C10_CommentBeforeHeader ==
    (pc = "done" /\ options.header /\ Truthy(options.comments)
        /\ 1 \notin NonComments /\ NonComments # {}
        /\ FirstNonComment < Len(AllLines)
        /\ Trim(AllLines[FirstNonComment]) # <<>>) =>
        /\ headers = HeaderOf(AllLines[FirstNonComment], options)
        /\ Len(result.data) <= Len(AllLines) - FirstNonComment

\* an empty line or a line of white space only
IsBlank(line) == \A k \in 1..Len(line) : line[k] \in {" ", "\t", CR, LF}

\* the comment marker: # when comments is just true
Marker == IF options.comments = CommentsOn THEN <<"#">> ELSE options.comments.s

\* the text of the line starts with the marker, leading white space aside
IsCommentLine(line) ==
    \E n \in 1..Len(line) :
        /\ IsBlank(SubSeq(line, 1, n - 1))
        /\ line[n] \notin {" ", "\t", CR, LF}
        /\ n + Len(Marker) - 1 <= Len(line)
        /\ SubSeq(line, n, n + Len(Marker) - 1) = Marker

\* a line that is filtered out
FilteredOut(line) ==
    \/ options.skipEmptyLines /\ IsBlank(line)
    \/ options.comments # CommentsOff /\ IsCommentLine(line)

\* C11: a line after the header that is filtered out (blank while
\* skipEmptyLines is on, or starting with the comment marker while comments
\* are enabled) adds no Record and no ParseError, and no per-field parser
\* and no transform is ever called for it.
C11_FilteredLinesLeaveNoTrace ==
    [][/\ (InLoop /\ FilteredOut(lines[lineI + 1])) =>
            /\ result'.data = result.data
            /\ result'.errors = result.errors
            /\ calls' = calls
       /\ \A k \in 1..Len(calls') : ~FilteredOut(lines'[calls'[k].line + 1])]_vars

\* C11's case: a line of white space and a comment line with leading white
\* space were passed over under comments: true, and a later line became a
\* Record
C11_Witness ==
    /\ pc = "done"
    /\ options.skipEmptyLines
    /\ options.comments = CommentsOn
    /\ Len(lines) = 3
    /\ lines[1] = <<" ">>
    /\ lines[2] = <<" ", "#", "c">>
    /\ Len(result.data) = 1
    /\ calls # <<>>

\* the positions, among the lines after the header, of the lines that are
\* not filtered as empty or comment lines
Unfiltered == {k \in 1..Len(DataLines) : ~Filtered(DataLines[k])}

\* the elements of a set of numbers in increasing order
RECURSIVE Ascending(_)
Ascending(S) ==
    IF S = {} THEN <<>>
    ELSE LET m == CHOOSE x \in S : \A y \in S : x <= y
         IN <<m>> \o Ascending(S \ {m})

\* C18: with no preview cap, a parse that returns has accounted for every
\* unfiltered line after the header exactly once and in input order: the
\* lines that raise gave one ParseError each (only under skipInvalidLines),
\* the others one Record each, the k-th Record being the one of the k-th
\* line that did not fail; meta.rows is the number of Records.
C18_OneOutcomePerLine ==
    (pc = "done" /\ options.preview = 0) =>
        LET failed == Ascending({k \in Unfiltered : Raises(DataLines[k])})
            passed == Ascending({k \in Unfiltered : ~Raises(DataLines[k])})
        IN /\ Len(result.data) + Len(result.errors) = Cardinality(Unfiltered)
           /\ Len(result.data) = Len(passed)
           /\ Len(result.errors) = Len(failed)
           /\ \A k \in 1..Len(passed) :
                result.data[k] =
                    ConvertLine(Trim(DataLines[passed[k]]), headers, options).parsedRow
           /\ \A k \in 1..Len(failed) : result.errors[k].row = failed[k]
           /\ failed # <<>> => options.skipInvalidLines
           /\ result.meta.rows = Len(result.data)

\* C18's case: a filtered line, then a line that raised and was recorded,
\* then a line that became a Record
C18_Witness ==
    /\ pc = "done"
    /\ options.preview = 0
    /\ Len(DataLines) = 3
    /\ Unfiltered = {2, 3}
    /\ Len(result.errors) = 1
    /\ result.errors[1].row = 2
    /\ Len(result.data) = 1

\* s holds sep as a substring
Contains(s, sep) ==
    \E k \in 1..(Len(s) - Len(sep) + 1) : SubSeq(s, k, k + Len(sep) - 1) = sep

\* a line feed with no carriage return before it
HasBareLF(s) == \E k \in 1..Len(s) : s[k] = LF /\ (k = 1 \/ s[k - 1] # CR)

\* a carriage return with no line feed after it
HasBareCR(s) == \E k \in 1..Len(s) : s[k] = CR /\ (k = Len(s) \/ s[k + 1] # LF)

RECURSIVE JoinWith(_, _)
\* the pieces with sep between them
JoinWith(ps, sep) ==
    IF ps = <<>> THEN <<>>
    ELSE IF Len(ps) = 1 THEN ps[1]
    ELSE ps[1] \o sep \o JoinWith(Tail(ps), sep)

\* the separator the line-break mode stands for
ExpectedLinebreak ==
    IF options.newline # Auto THEN options.newline
    ELSE IF Contains(csvData, <<CR, LF>>) THEN <<CR, LF>>
    ELSE IF Contains(csvData, <<LF>>) THEN <<LF>>
    ELSE IF Contains(csvData, <<CR>>) THEN <<CR>>
    ELSE <<LF>>

\* C19: in auto mode the separator is CR+LF if the text holds the pair,
\* else LF if it holds one, else CR if it holds one, else LF; an explicit
\* separator is used as given; meta.linebreak is the separator the text was
\* split at (the lines hold no separator, and joined by it they give the
\* text back) and is never the word auto in auto mode.
C19_LinebreakChoice ==
    pc # "start" =>
        /\ result.meta.linebreak = ExpectedLinebreak
        /\ options.newline = Auto => result.meta.linebreak \in {<<CR, LF>>, <<LF>>, <<CR>>}
        /\ \A k \in 1..Len(lines) : ~Contains(lines[k], result.meta.linebreak)
        /\ IF options.header
           THEN \E n \in 0..Len(csvData) :
                    /\ ~Contains(SubSeq(csvData, 1, n), result.meta.linebreak)
                    /\ JoinWith(<<SubSeq(csvData, 1, n)>> \o lines, result.meta.linebreak)
                            = csvData
           ELSE JoinWith(lines, result.meta.linebreak) = csvData

\* C19's case: auto mode on a text with the pair and a bare line feed or a
\* bare carriage return as well
C19_Witness ==
    /\ pc = "done"
    /\ options.newline = Auto
    /\ Contains(csvData, <<CR, LF>>)
    /\ HasBareLF(csvData) \/ HasBareCR(csvData)
    /\ result.meta.linebreak = <<CR, LF>>
    /\ Len(lines) >= 1

----------------------------------------------------------------------------
(* Properties of the header and of the conversion of fields *)

\* the field names as written in the header line (no quotes in these lines)
RawHeader == FieldsBetween(AllLines[1], options.delimiter)

\* the final name of the raw header field h: the entry of the rename map
\* under the transformed name if there is one, the transformed name otherwise
FinalName(h) ==
    LET t == TransformHeader(options.transformHeader, h) IN
    IF t \in DOMAIN options.renameHeaders THEN options.renameHeaders[t] ELSE t

FinalNames == [k \in 1..Len(RawHeader) |-> FinalName(RawHeader[k])]

\* C12: the header is derived by transform then rename: the final name of
\* the raw field h is R[T(h)] when T(h) is a key of the rename map R and
\* T(h) otherwise; meta.fields and the keys of the Records are these names.
C12_HeaderTransformThenRename ==
    (pc # "start" /\ options.header) =>
        /\ headers = FinalNames
        /\ result.meta.fields = [t |-> "array", a |-> FinalNames]
        /\ \A n \in 1..Len(result.data) :
                DOMAIN result.data[n] \subseteq {FinalNames[k] : k \in 1..Len(FinalNames)}

\* the fields of the line the loop is at (no quotes in these lines)
CurrentFields == FieldsBetween(Trim(lines[lineI + 1]), options.delimiter)

\* the step converts the current line into a Record
YieldsRecord == IsRow /\ Len(result'.data) = Len(result.data) + 1

\* the Record the step adds
NewRecord == result'.data[Len(result'.data)]

\* dynamic typing of the strings of these lines: the numeral 1, the empty
\* string, and strings that are neither a keyword, a number nor a date
Typed(v) ==
    IF ~options.dynamicTyping THEN Str(v)
    ELSE IF v = <<>> THEN Null
    ELSE IF v = <<"1">> THEN Decimal(1, 1, 0)
    ELSE Str(v)

\* what the transform makes of a converted value
Transformed(v, field) == Transform(options.transform, v, field).v

C14_ParserUnderRawName ==
    [][(YieldsRecord /\ options.header) =>
        \A k \in 1..Len(CurrentFields) :
            RawHeader[k] \in DOMAIN options.parsers =>
                NewRecord[headers[k]] = Transformed(Obj(CurrentFields[k]), Str(headers[k]))]_vars

\* the calls the step adds to the log
NewCalls == SubSeq(calls', Len(calls) + 1, Len(calls'))

IsTransformCall(c) == c.fn = "transform"

\* the key of the k-th field: the header name, or the 0-based index
KeyOf(k) == IF options.header THEN Str(headers[k]) ELSE Num(k - 1)

\* the value the conversion step gives the k-th field
ConvertedOf(k) ==
    IF options.header /\ headers[k] \in DOMAIN options.parsers
    THEN Obj(CurrentFields[k])
    ELSE Typed(CurrentFields[k])

\* C16: in a row that becomes a Record the transform is called exactly once
\* for every field, in field order, after the conversion of that field,
\* with the converted value and the field's key; the value stored in the
\* Record is what the transform returned.
C16_TransformOncePerField ==
    [][YieldsRecord =>
        LET ts == SelectSeq(NewCalls, IsTransformCall) IN
        /\ Len(ts) = Len(CurrentFields)
        /\ \A k \in 1..Len(CurrentFields) :
            /\ ts[k].field = KeyOf(k)
            /\ ts[k].arg = ConvertedOf(k)
            /\ ts[k].line = lineI
            /\ IF options.header
               THEN NewRecord[headers[k]] = Transformed(ts[k].arg, KeyOf(k))
               ELSE NewRecord[k] = Transformed(ts[k].arg, KeyOf(k))
        /\ \A n \in 1..Len(NewCalls) :
                NewCalls[n].fn = "parser" =>
                    /\ n < Len(NewCalls)
                    /\ NewCalls[n + 1].fn = "transform"
                    /\ NewCalls[n + 1].field = NewCalls[n].field]_vars

\* C16's case: a tagging transform got the parser's object with the key b
\* and the typed number with the key a, and the Record holds its results
C16_Witness ==
    /\ options.header /\ options.dynamicTyping
    /\ options.transform = "tag"
    /\ Len(result.data) >= 1
    /\ DOMAIN result.data[1] = {<<"a">>, <<"b">>}
    /\ result.data[1][<<"a">>] =
            [t |-> "tagged", v |-> Decimal(1, 1, 0), field |-> Str(<<"a">>)]
    /\ result.data[1][<<"b">>] =
            [t |-> "tagged", v |-> Obj(<<"1">>), field |-> Str(<<"b">>)]
    /\ Len(SelectSeq(calls, IsTransformCall)) >= 2

----------------------------------------------------------------------------
(* Properties of convertType *)

\* a numeric literal: an optional sign, then digits with at most one point
\* and at least one digit
IsNumeral(s) ==
    LET body == IF s # <<>> /\ s[1] \in {"-", "+"} THEN Tail(s) ELSE s IN
    /\ \A k \in 1..Len(body) : body[k] \in Digits \cup {"."}
    /\ \E k \in 1..Len(body) : body[k] \in Digits
    /\ Cardinality({k \in 1..Len(body) : body[k] = "."}) <= 1

\* the first match of the fixed order; a numeral may stand between white
\* space, and a valid date is a string new Date accepts
FirstMatch(s) ==
    IF s = <<>> THEN Null
    ELSE IF s = True THEN Bool(TRUE)
    ELSE IF s = False THEN Bool(FALSE)
    ELSE IF s = NullWord THEN Null
    ELSE IF s = UndefinedKey THEN Undef
    ELSE IF IsNumeral(Trim(s)) THEN ToNumber(s)
    ELSE IF IsDate(s) THEN DateOf(s)
    ELSE Str(s)

\* C15: dynamic type conversion returns the first match of the fixed
\* order: the empty string gives null, true and false booleans, null
\* null, undefined undefined, a numeric literal that number, a valid date
\* a date, and any other string comes back unchanged; with dynamic typing
\* off every string comes back unchanged.
C15_FirstMatchOfFixedOrder ==
    typePc = "done" =>
        converted = IF options.dynamicTyping THEN FirstMatch(value) ELSE Str(value)

====
